---- MODULE Spec2Model ----
(***************************************************************************)
(* prowlerparser.py: analyze_prowler_output() reads one Prowler CSV report *)
(* and returns its failed checks; main() runs it over every report of a    *)
(* directory, removes duplicates, sorts and writes failed_items.csv.       *)
(*                                                                         *)
(* A report file is [header, rows, failAfter]: the cells of its first line *)
(* (<<>> for an empty file or a leading blank line), the cells of its      *)
(* other lines, and the number of rows the reader delivers before reading  *)
(* raises (0: open() itself raises; NoFail: reading never raises).         *)
(* Python's None is the value None below; no cell holds that text.         *)
(***************************************************************************)
EXTENDS Integers, Sequences, FiniteSets, TLC

\* ---- bounds of the model ----
MaxFiles == 2          \* reports in the directory
MaxRows == 2           \* data rows of all reports of the directory together

NoFail == -1
None == "<None>"

Range(s) == {s[k] : k \in 1..Len(s)}

\* ---- the input universe ----
HdrA == <<"ACCOUNT_UID", "STATUS", "SEVERITY", "CHECK_TITLE", "REGION">>
HdrB == <<"SUBSCRIPTIONID", "STATUS", "PROVIDER", "REQUIREMENTS_DESCRIPTION", "LOCATION">>
HdrBoth == <<"ACCOUNT_UID", "STATUS", "SUBSCRIPTIONID", "CHECK_TITLE", "LOCATION">>
HdrUnknown == <<"TENANT", "STATUS", "SEVERITY", "CHECK_TITLE", "REGION">>
Headers == {HdrA, HdrB, HdrBoth, HdrUnknown, <<>>}

\* data rows: the last two are shorter than the header
RowPool ==
    { <<"a1", "FAIL", "high", "t1", "eu">>,
      <<"a1", "FAIL", "high", "t2", "EU">>,
      <<"a2", "FAIL", "high", "t1", "eu">>,
      <<"a2", "PASS", "low", "t2", "eu">>,
      <<"a1", "FAIL">>,
      <<"a2">> }

RegionArgs == {None, "eu"}

RECURSIVE RowSeqs(_)
RowSeqs(n) ==
    IF n = 0 THEN {<<>>}
    ELSE {Append(s, r) : s \in RowSeqs(n - 1), r \in RowPool}

\* the reports of n rows; the readable ones are read to the end and are of
\* one platform
FilesWith(n, readable) ==
    {[header |-> h, rows |-> rs, failAfter |-> fa] :
        h \in (IF readable THEN {HdrA, HdrB} ELSE Headers),
        rs \in RowSeqs(n),
        fa \in (IF readable THEN {NoFail} ELSE {NoFail} \cup (0..n))}

\* the directories of k reports holding at most b rows together
RECURSIVE DirsOf(_, _, _)
DirsOf(k, b, readable) ==
    IF k = 0 THEN {<<>>}
    ELSE UNION {{<<f>> \o d : f \in FilesWith(n, readable),
                              d \in DirsOf(k - 1, b - n, readable)} : n \in 0..b}

\* the directories of at most k reports
Dirs(k, readable) == UNION {DirsOf(j, MaxRows, readable) : j \in 0..k}

\* ---- str and tuple comparison ----
Codes(s) ==
    CASE s = "N/A" -> <<78, 47, 65>>
      [] s = "EU" -> <<69, 85>>
      [] s = "FAIL" -> <<70, 65, 73, 76>>
      [] s = "PASS" -> <<80, 65, 83, 83>>
      [] s = "a1" -> <<97, 49>>
      [] s = "a2" -> <<97, 50>>
      [] s = "eu" -> <<101, 117>>
      [] s = "high" -> <<104, 105, 103, 104>>
      [] s = "low" -> <<108, 111, 119>>
      [] s = "t1" -> <<116, 49>>
      [] s = "t2" -> <<116, 50>>

RECURSIVE LexLess(_, _)
LexLess(a, b) ==
    IF b = <<>> THEN FALSE
    ELSE IF a = <<>> THEN TRUE
    ELSE IF a[1] # b[1] THEN a[1] < b[1]
    ELSE LexLess(Tail(a), Tail(b))

StrLess(a, b) == LexLess(Codes(a), Codes(b))

KeySeverityFirst(x) == <<x[2], x[3]>>

\* the sort key of a record [title, severity, account]
Key(x) == <<x[3], x[2]>>

\* comparing two keys raises TypeError: the first components that differ
\* are None and a str
KeyRaises(x, y) ==
    LET kx == Key(x)
        ky == Key(y)
    IN  IF kx[1] # ky[1] THEN (kx[1] = None) # (ky[1] = None)
        ELSE IF kx[2] # ky[2] THEN (kx[2] = None) # (ky[2] = None)
        ELSE FALSE

KeyLess(x, y) ==
    LET kx == Key(x)
        ky == Key(y)
    IN  IF kx[1] # ky[1] THEN StrLess(kx[1], ky[1])
        ELSE IF kx[2] # ky[2] THEN StrLess(kx[2], ky[2])
        ELSE FALSE

\* ---- csv.DictReader ----
\* the value row.get(col, default) of a data row under the header
RowGet(header, row, col, default) ==
    LET at == {k \in 1..Len(header) : header[k] = col}
    IN  IF at = {} THEN default
        ELSE LET k == CHOOSE m \in at : \A o \in at : o <= m
             IN  IF k <= Len(row) THEN row[k] ELSE None

\* ---- analyze_prowler_output ----
BindingsSubscriptionFirst(header) ==
    IF "SUBSCRIPTIONID" \in Range(header)
    THEN [check_title_col |-> "REQUIREMENTS_DESCRIPTION", severity_col |-> "SEVERITY",
          account_col |-> "SUBSCRIPTIONID", region_col |-> "LOCATION"]
    ELSE IF "ACCOUNT_UID" \in Range(header)
    THEN [check_title_col |-> "CHECK_TITLE", severity_col |-> "SEVERITY",
          account_col |-> "ACCOUNT_UID", region_col |-> "REGION"]
    ELSE [check_title_col |-> None, severity_col |-> None,
          account_col |-> None, region_col |-> None]

Bindings(header) ==
    IF "ACCOUNT_UID" \in Range(header)
    THEN [check_title_col |-> "CHECK_TITLE", severity_col |-> "SEVERITY",
          account_col |-> "ACCOUNT_UID", region_col |-> "REGION"]
    ELSE IF "SUBSCRIPTIONID" \in Range(header)
    THEN [check_title_col |-> "REQUIREMENTS_DESCRIPTION", severity_col |-> "SEVERITY",
          account_col |-> "SUBSCRIPTIONID", region_col |-> "LOCATION"]
    ELSE [check_title_col |-> None, severity_col |-> None,
          account_col |-> None, region_col |-> None]

QualifiesUnlessPass(header, row, b, region_filter) ==
    /\ row # <<>>
    /\ RowGet(header, row, "STATUS", None) # "PASS"
    /\ \/ region_filter = None
       \/ RowGet(header, row, b.region_col, None) = region_filter

Lower(v) == IF v = "EU" THEN "eu" ELSE v

QualifiesIgnoringCase(header, row, b, region_filter) ==
    /\ row # <<>>
    /\ RowGet(header, row, "STATUS", None) = "FAIL"
    /\ \/ region_filter = None
       \/ Lower(RowGet(header, row, b.region_col, None)) = Lower(region_filter)

Qualifies(header, row, b, region_filter) ==
    /\ row # <<>>
    /\ RowGet(header, row, "STATUS", None) = "FAIL"
    /\ \/ region_filter = None
       \/ RowGet(header, row, b.region_col, None) = region_filter

Extract(header, row, b) ==
    << RowGet(header, row, b.check_title_col, "N/A"),
       RowGet(header, row, b.severity_col, "N/A"),
       RowGet(header, row, b.account_col, "N/A") >>

\* failed_checks after the loop has taken the first n rows
RECURSIVE ProcessRows(_, _, _, _)
ProcessRows(file, b, region_filter, n) ==
    IF n = 0 THEN <<>>
    ELSE LET prev == ProcessRows(file, b, region_filter, n - 1)
             row == file.rows[n]
         IN  IF Qualifies(file.header, row, b, region_filter)
             THEN Append(prev, Extract(file.header, row, b))
             ELSE prev

analyze_prowler_output(file, region_filter) ==
    LET b == Bindings(file.header)
    IN  IF file.failAfter = 0
        THEN [checks |-> <<>>, diag |-> "error"]
        ELSE IF file.header = <<>>
        THEN [checks |-> <<>>, diag |-> "warning_empty"]
        ELSE IF b.account_col = None
        THEN [checks |-> <<>>, diag |-> "warning_unknown"]
        ELSE IF file.failAfter # NoFail
        THEN [checks |-> ProcessRows(file, b, region_filter, file.failAfter),
              diag |-> "error"]
        ELSE [checks |-> ProcessRows(file, b, region_filter, Len(file.rows)),
              diag |-> "ok"]

\* ---- main: duplicates, sort, output ----
\* the orders in which a set may be iterated
Orders(S) ==
    {s \in [1..Cardinality(S) -> S] : \A p, q \in 1..Cardinality(S) : p # q => s[p] # s[q]}

UniqueListsKeepingAll(checks) == {checks}

\* lines 125-128: the lists the set of tuples may be turned back into
UniqueLists(checks) == Orders(Range(checks))

\* list.sort(key=...) is stable: x goes behind every element whose key is not greater
RECURSIVE InsertByKey(_, _)
InsertByKey(s, x) ==
    IF s = <<>> THEN <<x>>
    ELSE IF KeyLess(x, s[Len(s)])
    THEN Append(InsertByKey(SubSeq(s, 1, Len(s) - 1), x), s[Len(s)])
    ELSE Append(s, x)

SortByKeyLeavingOrder(s) == s

RECURSIVE SortByKey(_)
SortByKey(s) ==
    IF s = <<>> THEN <<>>
    ELSE InsertByKey(SortByKey(SubSeq(s, 1, Len(s) - 1)), s[Len(s)])

SortRaises(checks) == \E x, y \in Range(checks) : KeyRaises(x, y)

\* csv.writer writes None as the empty field
Render(v) == IF v = None THEN "" ELSE v
RenderRow(x) == <<Render(x[1]), Render(x[2]), Render(x[3])>>
HeaderRow == <<"Failed Item", "Severity", "Account ID">>
FileLines(checks) == <<HeaderRow>> \o [k \in 1..Len(checks) |-> RenderRow(checks[k])]

Absent == [exists |-> FALSE, lines |-> <<>>]

VARIABLES
    dir_exists,            \* os.path.isdir(args.directory)
    csv_files,             \* glob.glob(search_pattern), in the order glob returns
    region,                \* args.region
    pc,                    \* where main() is
    done,                  \* reports the for loop has taken
    all_failed_checks,
    diagnostics,           \* what analyze_prowler_output printed, per report
    unique_failed_checks,
    output_file,           \* failed_items.csv
    writes,                \* times main() opened failed_items.csv for writing
    outcome                \* how main() ended

vars == <<dir_exists, csv_files, region, pc, done, all_failed_checks, diagnostics,
          unique_failed_checks, output_file, writes, outcome>>

InitIn(directories) ==
    /\ dir_exists \in BOOLEAN
    /\ csv_files \in (IF dir_exists THEN directories ELSE {<<>>})
    /\ region \in RegionArgs
    /\ pc = "start"
    /\ done = 0
    /\ all_failed_checks = <<>>
    /\ diagnostics = <<>>
    /\ unique_failed_checks = <<>>
    /\ output_file = Absent
    /\ writes = 0
    /\ outcome = "running"

Finish(how) ==
    /\ pc' = "done"
    /\ outcome' = how

\* lines 97-100
DirectoryMissing ==
    /\ pc = "start"
    /\ ~dir_exists
    /\ Finish("no_directory")
    /\ UNCHANGED <<dir_exists, csv_files, region, done, all_failed_checks, diagnostics,
                   unique_failed_checks, output_file, writes>>

\* lines 106-108
NoFiles ==
    /\ pc = "start"
    /\ dir_exists
    /\ csv_files = <<>>
    /\ Finish("no_files")
    /\ UNCHANGED <<dir_exists, csv_files, region, done, all_failed_checks, diagnostics,
                   unique_failed_checks, output_file, writes>>

\* lines 110-112
BeginLoop ==
    /\ pc = "start"
    /\ dir_exists
    /\ csv_files # <<>>
    /\ pc' = "loop"
    /\ all_failed_checks' = <<>>
    /\ UNCHANGED <<dir_exists, csv_files, region, done, diagnostics,
                   unique_failed_checks, output_file, writes, outcome>>

\* lines 114-116, one report
AnalyzeFile ==
    /\ pc = "loop"
    /\ done < Len(csv_files)
    /\ LET r == analyze_prowler_output(csv_files[done + 1], region)
       IN  /\ all_failed_checks' = all_failed_checks \o r.checks
           /\ diagnostics' = Append(diagnostics, r.diag)
    /\ done' = done + 1
    /\ UNCHANGED <<dir_exists, csv_files, region, pc, unique_failed_checks,
                   output_file, writes, outcome>>

\* lines 118-123
NoFailedChecks ==
    /\ pc = "loop"
    /\ done = Len(csv_files)
    /\ all_failed_checks = <<>>
    /\ Finish("no_failed_checks")
    /\ UNCHANGED <<dir_exists, csv_files, region, done, all_failed_checks, diagnostics,
                   unique_failed_checks, output_file, writes>>

\* lines 125-132, the sort returns
DedupSort ==
    /\ pc = "loop"
    /\ done = Len(csv_files)
    /\ all_failed_checks # <<>>
    /\ ~SortRaises(all_failed_checks)
    /\ \E unique \in UniqueLists(all_failed_checks) :
          unique_failed_checks' = SortByKey(unique)
    /\ pc' = "write"
    /\ UNCHANGED <<dir_exists, csv_files, region, done, all_failed_checks, diagnostics,
                   output_file, writes, outcome>>

\* lines 125-132, the sort raises TypeError, which nothing in main() catches
SortTypeError ==
    /\ pc = "loop"
    /\ done = Len(csv_files)
    /\ all_failed_checks # <<>>
    /\ SortRaises(all_failed_checks)
    /\ pc' = "crashed"
    /\ outcome' = "uncaught_TypeError"
    /\ UNCHANGED <<dir_exists, csv_files, region, done, all_failed_checks, diagnostics,
                   unique_failed_checks, output_file, writes>>

\* lines 134-152
WriteOutput ==
    /\ pc = "write"
    /\ output_file' = [exists |-> TRUE, lines |-> FileLines(unique_failed_checks)]
    /\ writes' = writes + 1
    /\ Finish("written")
    /\ UNCHANGED <<dir_exists, csv_files, region, done, all_failed_checks, diagnostics,
                   unique_failed_checks>>

\* lines 136-137, 154-155: open() raises IOError and leaves the file alone, or
\* the buffered lines cannot be flushed and the file stays truncated
WriteFails ==
    /\ pc = "write"
    /\ output_file' \in {output_file, [exists |-> TRUE, lines |-> <<>>]}
    /\ writes' = writes + 1
    /\ Finish("write_error")
    /\ UNCHANGED <<dir_exists, csv_files, region, done, all_failed_checks, diagnostics,
                   unique_failed_checks>>

Next ==
    \/ DirectoryMissing
    \/ NoFiles
    \/ BeginLoop
    \/ AnalyzeFile
    \/ NoFailedChecks
    \/ DedupSort
    \/ SortTypeError
    \/ WriteOutput
    \/ WriteFails

Init == InitIn(Dirs(MaxFiles, FALSE))
InitReport == InitIn(Dirs(1, FALSE))
InitReadable == InitIn(Dirs(MaxFiles, TRUE))

\* main() over any directory, over a directory of one report, and over a
\* directory of readable reports
Spec == Init /\ [][Next]_vars
SpecReport == InitReport /\ [][Next]_vars
SpecReadable == InitReadable /\ [][Next]_vars

\* ---- what the properties below speak of ----
Flatten(ss) ==
    LET RECURSIVE Upto(_)
        Upto(k) == IF k = 0 THEN <<>> ELSE Upto(k - 1) \o ss[k]
    IN  Upto(Len(ss))

Taken == [k \in 1..done |-> csv_files[k]]
Written == outcome = "written"

\* the rows of a report the reader delivers before it raises, if it does
Delivered(f) == IF f.failAfter = NoFail THEN Len(f.rows) ELSE f.failAfter
StatusOf(f, row) == RowGet(f.header, row, "STATUS", None)
\* ---- C1 ----
\* the report without the delivered rows whose STATUS is not "FAIL"
OnlyFailed(f) ==
    LET IsFail(row) == StatusOf(f, row) = "FAIL"
    IN  [header |-> f.header,
         rows |-> SelectSeq(SubSeq(f.rows, 1, Delivered(f)), IsFail),
         failAfter |-> IF f.failAfter = 0 THEN 0 ELSE NoFail]

FailedRecords(files, region_filter) ==
    Flatten([k \in 1..Len(files) |->
                analyze_prowler_output(OnlyFailed(files[k]), region_filter).checks])

\* C1: a row whose STATUS is not exactly "FAIL" (a missing STATUS included)
\* contributes nothing: whatever the dialect and the region filter, the records
\* gathered from the reports taken so far are those of the same reports with
\* every such row removed, and so are the records of a written output.
C1_NotFailedNeverContributes ==
    /\ all_failed_checks = FailedRecords(Taken, region)
    /\ Written => Range(unique_failed_checks) = Range(FailedRecords(csv_files, region))

\* a written run over a readable report of a known dialect that holds a failed
\* row and a row without STATUS
C1_Witness ==
    /\ Written
    /\ \E k \in 1..Len(csv_files) :
          /\ analyze_prowler_output(csv_files[k], region).diag = "ok"
          /\ \E n \in 1..Len(csv_files[k].rows) :
                StatusOf(csv_files[k], csv_files[k].rows[n]) = None
          /\ \E n \in 1..Len(csv_files[k].rows) :
                StatusOf(csv_files[k], csv_files[k].rows[n]) = "FAIL"

\* ---- C2 ----
\* C2: the list of records handed to the writer holds no two elements equal in
\* title, severity and account-id, also when rows or reports repeat a record.
C2_NoDuplicateRecords ==
    /\ \A p, q \in 1..Len(unique_failed_checks) :
          p # q => unique_failed_checks[p] # unique_failed_checks[q]
    /\ Written => output_file.lines = FileLines(unique_failed_checks)

\* a written run in which two reports produced the same record
C2_Witness ==
    /\ Written
    /\ Len(csv_files) = 2
    /\ \E x \in Range(analyze_prowler_output(csv_files[1], region).checks) :
          x \in Range(analyze_prowler_output(csv_files[2], region).checks)

\* ---- C3 ----
ValueLess(v, w) == v # None /\ w # None /\ StrLess(v, w)
ValueLeq(v, w) == v = w \/ ValueLess(v, w)

\* C3: the written list is ascending by (account-id, severity): of two
\* consecutive records either the first account is smaller, or the accounts are
\* equal and the first severity is not greater.
C3_SortedByAccountThenSeverity ==
    \A p \in 1..(Len(unique_failed_checks) - 1) :
        LET a == unique_failed_checks[p]
            b == unique_failed_checks[p + 1]
        IN  \/ ValueLess(a[3], b[3])
            \/ a[3] = b[3] /\ ValueLeq(a[2], b[2])

\* a written run whose gathered records were out of order and whose severities
\* run against the accounts
C3_Witness ==
    /\ Written
    /\ Len(unique_failed_checks) = 2
    /\ all_failed_checks = <<unique_failed_checks[2], unique_failed_checks[1]>>
    /\ ValueLess(unique_failed_checks[2][2], unique_failed_checks[1][2])

\* ---- C4 ----
RegionColumn(header) ==
    IF "ACCOUNT_UID" \in Range(header) THEN "REGION" ELSE "LOCATION"

\* the records of the delivered rows of a report whose region column is exactly F
RecordsOfRegion(f, F) ==
    {Extract(f.header, f.rows[n], Bindings(f.header)) :
        n \in {m \in 1..Delivered(f) :
                  RowGet(f.header, f.rows[m], RegionColumn(f.header), None) = F}}

\* C4: with a region filter F the records gathered from the reports are among
\* those gathered from the same reports without a filter, and each of them
\* comes from a row whose region column (REGION or LOCATION) is exactly F.
C4_RegionFilterSubset ==
    region # None =>
        /\ Range(all_failed_checks) \subseteq
              Range(Flatten([k \in 1..done |->
                                analyze_prowler_output(csv_files[k], None).checks]))
        /\ Range(all_failed_checks) \subseteq
              UNION {RecordsOfRegion(csv_files[k], region) : k \in 1..done}

\* a filtered run that kept a row of region "eu" and dropped a failed row of "EU"
C4_Witness ==
    /\ region = "eu"
    /\ Written
    /\ \E k \in 1..Len(csv_files) :
          LET f == csv_files[k]
          IN  /\ Len(analyze_prowler_output(f, region).checks) = 1
              /\ Len(analyze_prowler_output(f, None).checks) = 2
              /\ \E n \in 1..Len(f.rows) :
                    RowGet(f.header, f.rows[n], RegionColumn(f.header), None) = "EU"

\* ---- C5 ----
PlatformA ==
    [check_title_col |-> "CHECK_TITLE", severity_col |-> "SEVERITY",
     account_col |-> "ACCOUNT_UID", region_col |-> "REGION"]
PlatformB ==
    [check_title_col |-> "REQUIREMENTS_DESCRIPTION", severity_col |-> "SEVERITY",
     account_col |-> "SUBSCRIPTIONID", region_col |-> "LOCATION"]

\* what a report whose header could be read yields under the stated detection
ByDialect(f, region_filter) ==
    IF "ACCOUNT_UID" \in Range(f.header)
    THEN ProcessRows(f, PlatformA, region_filter, Delivered(f))
    ELSE IF "SUBSCRIPTIONID" \in Range(f.header)
    THEN ProcessRows(f, PlatformB, region_filter, Delivered(f))
    ELSE <<>>

\* C5: the header alone decides the dialect: with ACCOUNT_UID the PlatformA
\* columns are read, also beside SUBSCRIPTIONID or LOCATION; else with
\* SUBSCRIPTIONID the PlatformB columns; else the report yields no record and
\* a warning, no error, whatever its rows hold.
C5_DialectFromHeader ==
    /\ all_failed_checks = Flatten([k \in 1..done |-> ByDialect(csv_files[k], region)])
    /\ \A k \in 1..done :
          (/\ csv_files[k].failAfter # 0
           /\ "ACCOUNT_UID" \notin Range(csv_files[k].header)
           /\ "SUBSCRIPTIONID" \notin Range(csv_files[k].header))
          => diagnostics[k] \in {"warning_empty", "warning_unknown"}

\* a written run over a report whose header holds both discriminators and
\* LOCATION
C5_Witness ==
    /\ Written
    /\ \E k \in 1..Len(csv_files) :
          /\ csv_files[k].header = HdrBoth
          /\ analyze_prowler_output(csv_files[k], region).checks # <<>>

\* ---- C6 ----
\* C6: a report whose reading fails, at open or after some qualifying rows,
\* contributes no record, the failure does not leave the loop and the other
\* reports are still taken.
C6_FailedReportContributesNothing ==
    /\ all_failed_checks =
          Flatten([k \in 1..done |->
                      IF diagnostics[k] = "error" THEN <<>>
                      ELSE analyze_prowler_output(csv_files[k], region).checks])
    /\ pc \in {"write", "done"} /\ dir_exists => done = Len(csv_files)

\* ---- C7 ----
\* the value the default-substitution rule gives: the cell, or "N/A" without one
CellOrNA(header, row, col) ==
    LET at == {k \in 1..Len(header) : header[k] = col /\ k <= Len(row)}
    IN  IF at = {} THEN "N/A"
        ELSE row[CHOOSE m \in at : \A o \in at : o <= m]

RecordOrNA(f, row) ==
    LET b == IF "ACCOUNT_UID" \in Range(f.header) THEN PlatformA ELSE PlatformB
    IN  << CellOrNA(f.header, row, b.check_title_col),
           CellOrNA(f.header, row, b.severity_col),
           CellOrNA(f.header, row, b.account_col) >>

Recognized(f) ==
    "ACCOUNT_UID" \in Range(f.header) \/ "SUBSCRIPTIONID" \in Range(f.header)

\* the qualifying rows among the first n rows of a report
QualifyingRows(f, region_filter, n) ==
    LET Ok(row) ==
            /\ StatusOf(f, row) = "FAIL"
            /\ \/ region_filter = None
               \/ RowGet(f.header, row, RegionColumn(f.header), None) = region_filter
    IN  SelectSeq(SubSeq(f.rows, 1, n), Ok)

RecordsOrNA(f, region_filter) ==
    IF f.failAfter = 0 \/ ~Recognized(f) THEN <<>>
    ELSE LET rows == QualifyingRows(f, region_filter, Delivered(f))
         IN  [j \in 1..Len(rows) |-> RecordOrNA(f, rows[j])]

\* C7: each field of the record of a qualifying row is the row's cell of the
\* bound column, or "N/A" when the row has none (column not in the header, or
\* row shorter than the header), never a null placeholder.
C7_MissingValueIsNA ==
    all_failed_checks = Flatten([k \in 1..done |-> RecordsOrNA(csv_files[k], region)])

\* ---- C8 ----
QualifyingRecords(files, region_filter) ==
    UNION {{RecordOrNA(files[k], row) :
               row \in Range(QualifyingRows(files[k], region_filter, Len(files[k].rows)))}
           : k \in {j \in 1..Len(files) : Recognized(files[j])}}

\* C8: when every report is read without failure, the written records are
\* exactly the (title, severity, account-id) records of the qualifying rows of
\* the reports of a recognized dialect: none lost, none without such a row.
C8_OutputIsQualifyingRecords ==
    (Written /\ \A k \in 1..Len(csv_files) : diagnostics[k] # "error")
    => Range(unique_failed_checks) = QualifyingRecords(csv_files, region)

\* ---- C9 ----
C9_Step ==
    /\ (output_file' # output_file \/ writes' # writes)
       => /\ pc = "write"
          /\ writes = 0
          /\ done = Len(csv_files)
          /\ all_failed_checks # <<>>
    /\ pc' # "crashed"

\* C9: failed_items.csv is written at most once in a run, only after every
\* report has been taken and only if records were gathered (no reports or no
\* failed records: the file is neither created nor overwritten), and no step
\* before the write (taking a report, dedup, sort) aborts the run.
C9_WriteOnceAtEndNoAbort == [][C9_Step]_vars

\* ---- C10 ----
RECURSIVE GlobOrders(_)
GlobOrders(s) ==
    IF s = <<>> THEN {<<>>}
    ELSE UNION {{<<s[k]>> \o t :
                    t \in GlobOrders([j \in 1..(Len(s) - 1) |->
                                            IF j < k THEN s[j] ELSE s[j + 1]])}
                : k \in 1..Len(s)}

\* the lists main() may hand to the writer when glob returns the reports as files
RunOutputs(files, region_filter) ==
    LET checks == Flatten([k \in 1..Len(files) |->
                              analyze_prowler_output(files[k], region_filter).checks])
    IN  {SortByKey(unique) : unique \in UniqueLists(checks)}

OtherOutputs ==
    UNION {RunOutputs(files, region) : files \in GlobOrders(csv_files)}

\* C10 as stated: the written sequence is a function of the set of reports:
\* whatever order the reports are taken in and whenever the run is repeated,
\* the same sequence is written, records of equal account-id and severity and
\* different title included.
C10_SameSequenceEveryRun ==
    Written => \A other \in OtherOutputs : other = unique_failed_checks

KeysOf(checks) == [k \in 1..Len(checks) |-> Key(checks[k])]

\* C10 amended: the set of written records and the sequence of their
\* (account-id, severity) keys are a function of the set of reports and the
\* region filter; the order among records of equal account-id and severity is
\* the iteration order of the set of tuples and may differ between runs.
C10_SameRecordsAndKeysEveryRun ==
    Written =>
        \A other \in OtherOutputs :
            /\ Range(other) = Range(unique_failed_checks)
            /\ KeysOf(other) = KeysOf(unique_failed_checks)

\* a written run over two reports that yield two records of equal account-id
\* and severity and different title
C10_Witness ==
    /\ Written
    /\ Len(csv_files) = 2
    /\ Len(unique_failed_checks) = 2
    /\ Key(unique_failed_checks[1]) = Key(unique_failed_checks[2])
    /\ analyze_prowler_output(csv_files[1], region).checks # <<>>
    /\ analyze_prowler_output(csv_files[2], region).checks # <<>>
====
